---- MODULE Spec2Model ----
(***************************************************************************)
(* A model of the To-Do CLI in src/main.py: the task store (load_tasks,    *)
(* save_tasks), the task list operations (add_task, view_tasks,            *)
(* remove_task, mark_task, clear_tasks) and the interactive session main().*)
(*                                                                         *)
(* Text is a sequence of one-character strings.  A file is a sequence of   *)
(* JSON tokens; the insignificant white space that indent=2 produces is    *)
(* left out, everything else json.dump writes and json.load reads is kept. *)
(***************************************************************************)
EXTENDS Integers, Sequences, FiniteSets, TLC

\* ------------------------------------------------------------------ bounds
MaxRawLen == 3       \* longest raw title handed to add_task
MaxText == 3         \* most characters of title text a list built by direct calls holds
MaxStored == 3       \* most elements of a stored top-level sequence
MaxSaved == 2        \* most tasks of a list handed to save_tasks directly
MaxHeld == 2         \* most tasks the interactive session holds

\* ------------------------------------------------------------------- text
\* The characters texts are drawn from: a letter, a space and the control
\* character U+0001.  The operators below also know the tab and the quote.
Chars == {"a", " ", "SOH"}

\* str.isspace(): what str.strip() removes at both ends.
IsSpace(c) == c \in {" ", "TAB"}

\* str.isprintable()
IsPrintable(c) == c \notin {"TAB", "SOH"}

RECURSIVE LStrip(_)
LStrip(s) ==
  IF s = <<>> THEN <<>>
  ELSE IF IsSpace(Head(s)) THEN LStrip(Tail(s)) ELSE s

RECURSIVE RStrip(_)
RStrip(s) ==
  IF s = <<>> THEN <<>>
  ELSE IF IsSpace(s[Len(s)]) THEN RStrip(SubSeq(s, 1, Len(s) - 1)) ELSE s

\* str.strip()
Strip(s) == RStrip(LStrip(s))

\* All texts over Chars of length at most n.
RECURSIVE TextsUpTo(_)
TextsUpTo(n) ==
  IF n = 0 THEN {<<>>}
  ELSE LET shorter == TextsUpTo(n - 1)
       IN shorter \cup {Append(s, c) : s \in {x \in shorter : Len(x) = n - 1}, c \in Chars}

\* ------------------------------------------------------------ JSON values
\* A Python value as json.load builds it: k is the type, s the text of a
\* str or the digits of a number, items the elements of a list, f the
\* members of a dict in file order.
Val(k, s, items, f) == [k |-> k, s |-> s, items |-> items, f |-> f]
JNull == Val("null", <<>>, <<>>, <<>>)
JBool(b) == Val(IF b THEN "true" ELSE "false", <<>>, <<>>, <<>>)
JNum(digits) == Val("num", digits, <<>>, <<>>)
JStr(s) == Val("str", s, <<>>, <<>>)
JList(items) == Val("list", <<>>, items, <<>>)
JDict(f) == Val("dict", <<>>, <<>>, f)
Member(key, v) == [key |-> key, v |-> v]

TitleKey == <<"t", "i", "t", "l", "e">>
DoneKey == <<"d", "o", "n", "e">>
ExtraKey == <<"x">>

\* A task as add_task and load_tasks build it.
Task(title, done) == [title |-> title, done |-> done]

\* ----------------------------------------------------------------- tokens
Tok(t, s) == [t |-> t, s |-> s]
Punct(t) == Tok(t, <<>>)

\* An encoder that writes every character as it is.
EncodeCharRaw(c) == c

\* json string escaping (ensure_ascii=False): the quote and control
\* characters are escaped, everything else is written as it is.
EncodeChar(c) ==
  CASE c = "QUOTE" -> "\\QUOTE"
    [] c = "TAB" -> "\\t"
    [] c = "SOH" -> "\\u0001"
    [] OTHER -> c

EncodeStr(s) == [i \in 1..Len(s) |-> EncodeChar(s[i])]

\* The decoder of json.load (strict): a raw control character or a raw
\* quote inside a string is a JSONDecodeError, an escape is undone.
UnitOk(u) == u \notin {"TAB", "SOH", "QUOTE"}

DecodeUnit(u) ==
  CASE u = "\\QUOTE" -> "QUOTE"
    [] u = "\\t" -> "TAB"
    [] u = "\\u0001" -> "SOH"
    [] OTHER -> u

Decodable(s) == \A i \in 1..Len(s) : UnitOk(s[i])
DecodeStr(s) == [i \in 1..Len(s) |-> DecodeUnit(s[i])]

RECURSIVE Flatten(_)
Flatten(ss) == IF ss = <<>> THEN <<>> ELSE Head(ss) \o Flatten(Tail(ss))

\* A dump that writes every task as not done.
DumpTaskDoneFalse(task) ==
  << Punct("{"), Tok("str", EncodeStr(TitleKey)), Punct(":"),
     Tok("str", EncodeStr(task.title)), Punct(","),
     Tok("str", EncodeStr(DoneKey)), Punct(":"), Punct("false"), Punct("}") >>

\* json.dump of one task dict {'title': ..., 'done': ...}
DumpTask(task) ==
  << Punct("{"), Tok("str", EncodeStr(TitleKey)), Punct(":"),
     Tok("str", EncodeStr(task.title)), Punct(","),
     Tok("str", EncodeStr(DoneKey)), Punct(":"),
     Punct(IF task.done THEN "true" ELSE "false"), Punct("}") >>

\* json.dump(tasks, tmp, indent=2, ensure_ascii=False)
Dump(tasks) ==
  <<Punct("[")>>
  \o Flatten([i \in 1..Len(tasks) |->
                (IF i = 1 THEN <<>> ELSE <<Punct(",")>>) \o DumpTask(tasks[i])])
  \o <<Punct("]")>>

\* ----------------------------------------------------------------- parser
PFail == [ok |-> FALSE, v |-> JNull, next |-> 0]
POk(v, next) == [ok |-> TRUE, v |-> v, next |-> next]

RECURSIVE ParseValue(_, _)
RECURSIVE ParseItems(_, _, _)
RECURSIVE ParseMembers(_, _, _)

ParseValue(toks, i) ==
  IF i > Len(toks) THEN PFail
  ELSE LET t == toks[i] IN
    CASE t.t = "null" -> POk(JNull, i + 1)
      [] t.t = "true" -> POk(JBool(TRUE), i + 1)
      [] t.t = "false" -> POk(JBool(FALSE), i + 1)
      [] t.t = "num" -> POk(JNum(t.s), i + 1)
      [] t.t = "str" ->
           IF Decodable(t.s) THEN POk(JStr(DecodeStr(t.s)), i + 1) ELSE PFail
      [] t.t = "[" ->
           IF i + 1 <= Len(toks) /\ toks[i + 1].t = "]"
           THEN POk(JList(<<>>), i + 2)
           ELSE ParseItems(toks, i + 1, <<>>)
      [] t.t = "{" ->
           IF i + 1 <= Len(toks) /\ toks[i + 1].t = "}"
           THEN POk(JDict(<<>>), i + 2)
           ELSE ParseMembers(toks, i + 1, <<>>)
      [] OTHER -> PFail

ParseItems(toks, i, acc) ==
  LET r == ParseValue(toks, i) IN
  IF ~r.ok \/ r.next > Len(toks) THEN PFail
  ELSE CASE toks[r.next].t = "," -> ParseItems(toks, r.next + 1, Append(acc, r.v))
         [] toks[r.next].t = "]" -> POk(JList(Append(acc, r.v)), r.next + 1)
         [] OTHER -> PFail

ParseMembers(toks, i, acc) ==
  IF i + 1 > Len(toks) THEN PFail
  ELSE IF toks[i].t # "str" \/ ~Decodable(toks[i].s) \/ toks[i + 1].t # ":" THEN PFail
  ELSE LET r == ParseValue(toks, i + 2) IN
    IF ~r.ok \/ r.next > Len(toks) THEN PFail
    ELSE LET acc2 == Append(acc, Member(DecodeStr(toks[i].s), r.v)) IN
      CASE toks[r.next].t = "," -> ParseMembers(toks, r.next + 1, acc2)
        [] toks[r.next].t = "}" -> POk(JDict(acc2), r.next + 1)
        [] OTHER -> PFail

\* json.load(f): one value and nothing after it, else JSONDecodeError.
JsonLoad(toks) ==
  LET r == ParseValue(toks, 1) IN
  IF r.ok /\ r.next = Len(toks) + 1 THEN r ELSE PFail

\* dict.get(key, default): the last member with that key wins.
RECURSIVE DictGet(_, _, _)
DictGet(f, key, default) ==
  IF f = <<>> THEN default
  ELSE IF f[Len(f)].key = key THEN f[Len(f)].v
  ELSE DictGet(SubSeq(f, 1, Len(f) - 1), key, default)

\* bool(x) of a parsed value
Truthy(v) ==
  CASE v.k = "null" -> FALSE
    [] v.k = "true" -> TRUE
    [] v.k = "false" -> FALSE
    [] v.k = "num" -> \E i \in 1..Len(v.s) : v.s[i] # "0"
    [] v.k = "str" -> v.s # <<>>
    [] v.k = "list" -> v.items # <<>>
    [] v.k = "dict" -> v.f # <<>>

\* ------------------------------------------------------------- load_tasks
\* The file at file_path: whether it exists, whether open() for reading
\* succeeds, and its content.
File(exists, readable, toks) == [exists |-> exists, readable |-> readable, toks |-> toks]
NoFile == File(FALSE, TRUE, <<>>)

\* One turn of the loop over data: nothing for a skipped element, the
\* sanitized task for a kept one.
LoadItemDoneDefaultTrue(item) ==
  IF item.k # "dict" THEN <<>>
  ELSE LET title == DictGet(item.f, TitleKey, JNull)
           done == DictGet(item.f, DoneKey, JBool(TRUE))
       IN IF title.k # "str" THEN <<>> ELSE <<Task(title.s, Truthy(done))>>

LoadItem(item) ==
  IF item.k # "dict" THEN <<>>
  ELSE LET title == DictGet(item.f, TitleKey, JNull)
           done == DictGet(item.f, DoneKey, JBool(FALSE))
       IN IF title.k # "str" THEN <<>> ELSE <<Task(title.s, Truthy(done))>>

RECURSIVE LoadItems(_)
LoadItems(items) ==
  IF items = <<>> THEN <<>> ELSE LoadItem(Head(items)) \o LoadItems(Tail(items))

\* load_tasks(file_path): the list returned, whether an exception reached
\* the caller, and the level of the diagnostic logged.
LoadResult(tasks, raised, log) == [tasks |-> tasks, raised |-> raised, log |-> log]

\* A load that lets the parse failure and the wrong top-level type reach
\* the caller.
load_tasks_propagates(file) ==
  IF ~file.exists THEN LoadResult(<<>>, FALSE, "info")
  ELSE IF ~file.readable THEN LoadResult(<<>>, FALSE, "error")
  ELSE LET data == JsonLoad(file.toks) IN
    IF ~data.ok THEN LoadResult(<<>>, TRUE, "none")
    ELSE IF data.v.k # "list" THEN LoadResult(<<>>, TRUE, "none")
    ELSE LoadResult(LoadItems(data.v.items), FALSE, "none")

load_tasks(file) ==
  IF ~file.exists THEN LoadResult(<<>>, FALSE, "info")
  ELSE IF ~file.readable THEN LoadResult(<<>>, FALSE, "error")
  ELSE LET data == JsonLoad(file.toks) IN
    IF ~data.ok THEN LoadResult(<<>>, FALSE, "error")
    ELSE IF data.v.k # "list" THEN LoadResult(<<>>, FALSE, "error")
    ELSE LoadResult(LoadItems(data.v.items), FALSE, "none")

\* ---------------------------------------------------- task list operations
\* The result of an operation: the list afterwards and the exception raised
\* ("" for a normal return).
OpResult(tasks, err) == [tasks |-> tasks, err |-> err]

\* An index argument: whether it is an int, and its value.
IntArg(n) == [int |-> TRUE, n |-> n]
NonIntArg == [int |-> FALSE, n |-> 0]

\* A check that only rejects the empty string: `not title` for
\* `not title.strip()`.
add_task_unstripped_check(tasks, title) ==
  IF title.k # "str" \/ title.s = <<>> THEN OpResult(tasks, "ValueError")
  ELSE OpResult(Append(tasks, Task(Strip(title.s), FALSE)), "")

add_task(tasks, title) ==
  IF title.k # "str" \/ Strip(title.s) = <<>> THEN OpResult(tasks, "ValueError")
  ELSE OpResult(Append(tasks, Task(Strip(title.s), FALSE)), "")

view_tasks(tasks) == [i \in 1..Len(tasks) |-> Task(tasks[i].title, tasks[i].done)]

\* tasks.pop() in place of tasks.pop(index)
PopLast(tasks, index) == SubSeq(tasks, 1, Len(tasks) - 1)

\* list.pop(index) for a zero-based index within range
Pop(tasks, index) == SubSeq(tasks, 1, index) \o SubSeq(tasks, index + 2, Len(tasks))

remove_task(tasks, index) ==
  IF ~index.int THEN OpResult(tasks, "TypeError")
  ELSE IF index.n < 0 \/ index.n >= Len(tasks) THEN OpResult(tasks, "IndexError")
  ELSE OpResult(Pop(tasks, index.n), "")

\* A mark that flips the flag: done = not done.
mark_task_toggles(tasks, index) ==
  IF ~index.int THEN OpResult(tasks, "TypeError")
  ELSE IF index.n < 0 \/ index.n >= Len(tasks) THEN OpResult(tasks, "IndexError")
  ELSE OpResult([tasks EXCEPT ![index.n + 1].done = ~@], "")

\* A mark without the lower bound check: a negative index counts from the
\* end, as tasks[index] does in Python.
mark_task_wraps(tasks, index) ==
  IF ~index.int THEN OpResult(tasks, "TypeError")
  ELSE IF index.n >= Len(tasks) \/ index.n < 0 - Len(tasks) THEN OpResult(tasks, "IndexError")
  ELSE IF index.n < 0 THEN OpResult([tasks EXCEPT ![Len(tasks) + index.n + 1].done = TRUE], "")
  ELSE OpResult([tasks EXCEPT ![index.n + 1].done = TRUE], "")

mark_task(tasks, index) ==
  IF ~index.int THEN OpResult(tasks, "TypeError")
  ELSE IF index.n < 0 \/ index.n >= Len(tasks) THEN OpResult(tasks, "IndexError")
  ELSE OpResult([tasks EXCEPT ![index.n + 1].done = TRUE], "")

clear_tasks(tasks) == OpResult(<<>>, "")

\* ------------------------------------------------------------------ state
VARIABLES
  pc,      \* where the program is
  tasks,   \* the in-memory task list
  file,    \* the file at file_path
  tmp,     \* the temporary file of the save in progress
  stray,   \* TRUE when a temporary file of an earlier save is still in the directory
  sv,      \* the locals of the save_tasks call in progress
  call,    \* the last direct call of a task list operation and its outcome
  stored,  \* the JSON document the file was written from, when it has one
  loaded,  \* the outcome of the last load_tasks call
  out,     \* the last message the front end printed
  hist,    \* what the session has done so far
  heap     \* the list and dict objects behind the task list and a view of it

vars == <<pc, tasks, file, tmp, stray, sv, call, stored, loaded, out, hist, heap>>

NoTmp == [exists |-> FALSE, toks |-> <<>>]
NoSave == [tmp_path |-> FALSE, exc |-> FALSE, err |-> "", caller |-> "none", pre |-> NoFile,
           is_list |-> TRUE, list |-> <<>>]
NoCall == [op |-> "none", title |-> JNull, index |-> NonIntArg, err |-> "",
           before |-> <<>>, view |-> <<>>, typed |-> <<>>, file |-> NoFile]
NoLoad == LoadResult(<<>>, FALSE, "none")
NoHist == [dirty |-> FALSE, lastSave |-> "none", exitCause |-> "none", exitSave |-> FALSE,
           crashAt |-> "none", stale |-> FALSE, touched |-> FALSE]

\* The objects behind the task list: the list objects (1 is the stored
\* list, 2 the list a caller got from view_tasks), each a sequence of
\* references into dicts, the task dicts themselves, and which list object
\* the caller of view_tasks holds (0: none).
NoHeap == [lists |-> << <<>>, <<>> >>, dicts |-> <<>>, view |-> 0]

\* What every specification starts from, apart from pc, tasks, file and stored.
InitRest ==
  /\ tmp = NoTmp
  /\ stray = FALSE
  /\ sv = NoSave
  /\ call = NoCall
  /\ heap = NoHeap
  /\ loaded = NoLoad
  /\ out = "none"
  /\ hist = NoHist

\* --------------------------------------- direct calls of the operations
\* A caller that holds a list and calls the operations of the module with
\* arguments of its own choice.
RawTitles == {JStr(s) : s \in TextsUpTo(MaxRawLen)} \cup {JNull}
IndexArgs == {IntArg(n) : n \in -1..(MaxText + 1)} \cup {NonIntArg}

\* The characters of title text a list holds.
RECURSIVE TotalLen(_)
TotalLen(list) == IF list = <<>> THEN 0 ELSE Len(Head(list).title) + TotalLen(Tail(list))

InitOps ==
  /\ pc = "ops"
  /\ tasks = <<>>
  /\ file = NoFile
  /\ stored = JNull
  /\ InitRest

Called(op, title, index, r, view) ==
  /\ tasks' = r.tasks
  /\ call' = [NoCall EXCEPT !.op = op, !.title = title, !.index = index, !.err = r.err,
                            !.before = tasks, !.view = view]
  /\ UNCHANGED <<pc, file, tmp, stray, sv, stored, loaded, out, hist, heap>>

CallAdd ==
  /\ pc = "ops"
  /\ \E title \in RawTitles :
       LET r == add_task(tasks, title) IN
       /\ TotalLen(r.tasks) <= MaxText
       /\ Called("add", title, NonIntArg, r, view_tasks(r.tasks))

CallView ==
  /\ pc = "ops"
  /\ Called("view", JNull, NonIntArg, OpResult(tasks, ""), view_tasks(tasks))

CallRemove ==
  /\ pc = "ops"
  /\ \E index \in IndexArgs :
       Called("remove", JNull, index, remove_task(tasks, index), <<>>)

CallMark ==
  /\ pc = "ops"
  /\ \E index \in IndexArgs :
       Called("mark", JNull, index, mark_task(tasks, index), <<>>)

CallClear ==
  /\ pc = "ops"
  /\ Called("clear", JNull, NonIntArg, clear_tasks(tasks), <<>>)

NextOps == CallAdd \/ CallView \/ CallRemove \/ CallMark \/ CallClear

SpecOps == InitOps /\ [][NextOps]_vars

\* ------------------------------------------------------------ stored files
\* The tokens of a JSON document as some writer left them in the file.
RECURSIVE Render(_)
RECURSIVE RenderItems(_)
RECURSIVE RenderMembers(_)

Render(v) ==
  CASE v.k \in {"null", "true", "false"} -> <<Punct(v.k)>>
    [] v.k = "num" -> <<Tok("num", v.s)>>
    [] v.k = "str" -> <<Tok("str", EncodeStr(v.s))>>
    [] v.k = "list" -> <<Punct("[")>> \o RenderItems(v.items) \o <<Punct("]")>>
    [] v.k = "dict" -> <<Punct("{")>> \o RenderMembers(v.f) \o <<Punct("}")>>

RenderItems(items) ==
  IF items = <<>> THEN <<>>
  ELSE Render(Head(items))
       \o (IF Len(items) = 1 THEN <<>> ELSE <<Punct(",")>> \o RenderItems(Tail(items)))

RenderMembers(f) ==
  IF f = <<>> THEN <<>>
  ELSE <<Tok("str", EncodeStr(Head(f).key)), Punct(":")>> \o Render(Head(f).v)
       \o (IF Len(f) = 1 THEN <<>> ELSE <<Punct(",")>> \o RenderMembers(Tail(f)))

\* The stored elements the model draws from: values that are not records,
\* records whose title is missing, not a string, or any short text, and
\* records with a good title whose done field is missing or any of several
\* truthy and falsy values, with and without an unknown extra field.
StoredScalars == {JNum(<<"1">>), JStr(<<"a">>)}
StoredTitles == {JStr(<<>>), JStr(<<"a">>), JStr(<<"SOH">>), JNum(<<"1">>), JNull}
StoredDones == {JBool(TRUE), JBool(FALSE), JNum(<<"0">>), JNum(<<"1">>),
                JStr(<<>>), JStr(<<"a">>), JNull, JList(<<>>)}
Extras == {<<>>, <<Member(ExtraKey, JNum(<<"1">>))>>}

StoredRecords ==
  {JDict(<<>>)}
  \cup {JDict(<<Member(TitleKey, t)>>) : t \in StoredTitles}
  \cup {JDict(<<Member(TitleKey, JStr(<<"a">>))>> \o x) : x \in Extras \ {<<>>}}
  \cup {JDict(<<Member(DoneKey, d)>>) : d \in {JBool(TRUE)}}
  \cup {JDict(<<Member(TitleKey, JStr(<<"a">>)), Member(DoneKey, d)>>) : d \in StoredDones}
  \cup {JDict(<<Member(TitleKey, JStr(<<"a">>)), Member(DoneKey, JStr(<<"a">>))>> \o x) :
          x \in Extras}

StoredElements == StoredScalars \cup StoredRecords

RECURSIVE SeqsUpTo(_, _)
SeqsUpTo(S, n) ==
  IF n = 0 THEN {<<>>}
  ELSE LET shorter == SeqsUpTo(S, n - 1)
       IN shorter \cup {Append(q, e) : q \in {x \in shorter : Len(x) = n - 1}, e \in S}

StoredDocs ==
  {JList(items) : items \in SeqsUpTo(StoredElements, MaxStored)}
  \cup StoredScalars \cup {JDict(<<Member(TitleKey, JStr(<<"a">>))>>)}

\* The files a document can be found in: written in full and readable; and,
\* for the short documents, cut short before its last token, or not
\* readable by this user.
FilesOf(doc) ==
  LET toks == Render(doc) IN
  {File(TRUE, TRUE, toks)}
  \cup (IF Len(toks) <= 12
        THEN {File(TRUE, TRUE, SubSeq(toks, 1, Len(toks) - 1)), File(TRUE, FALSE, toks)}
        ELSE {})

\* ------------------------------------------ direct calls of load_tasks
\* A caller that loads the file at a path.
LoadCall ==
  /\ pc = "load"
  /\ loaded' = load_tasks(file)
  /\ tasks' = loaded'.tasks
  /\ pc' = "loaded"
  /\ UNCHANGED <<file, tmp, stray, sv, call, stored, out, hist, heap>>

InitLoad ==
  /\ pc = "load"
  /\ tasks = <<>>
  /\ \/ stored \in StoredDocs /\ file \in FilesOf(stored)
     \/ stored = JNull /\ file = NoFile
  /\ InitRest

NextLoad == LoadCall

SpecLoad == InitLoad /\ [][NextLoad]_vars

\* ------------------------------------------------------------- save_tasks
\* The locals of a call of save_tasks(tasks, file_path) as it starts: tmp_path
\* is unbound, no exception yet; pre and list remember the file and the
\* argument at the call.
EnterSave(caller) ==
  [tmp_path |-> FALSE, exc |-> FALSE, err |-> "", caller |-> caller, pre |-> file,
   is_list |-> TRUE, list |-> tasks]

SavePcs == {"sv_open", "sv_dump", "sv_close", "sv_replace", "sv_except"}

\* Where save_tasks returns to, by caller, for a normal return and for a
\* raised IOError.
ReturnPc(caller, raised) ==
  CASE caller = "store" -> "returned"
    [] caller = "main" -> "menu"
    [] caller = "exit" -> "exit"

ReturnOut(caller, raised) ==
  CASE caller = "store" -> out
    [] caller = "main" -> IF raised THEN "save_failed" ELSE "saved"
    [] caller = "exit" -> IF raised THEN "exit_save_failed" ELSE "goodbye"

\* save_tasks returns, normally or by raising IOError: its locals are gone
\* (the direct caller of the store keeps what it passed and what came back).
Returned(raised) ==
  /\ pc' = ReturnPc(sv.caller, raised)
  /\ sv' = IF sv.caller = "store"
           THEN [sv EXCEPT !.exc = raised, !.err = IF raised THEN "IOError" ELSE ""]
           ELSE NoSave
  /\ out' = ReturnOut(sv.caller, raised)
  /\ hist' = [hist EXCEPT !.lastSave = IF raised THEN "failed" ELSE "ok",
                          !.exitCause = IF sv.caller = "exit" THEN "quit" ELSE @]

\* A write of json.dump, straight into the file at file_path.
WriteInPlace(f, t, tok) ==
  [file |-> File(TRUE, TRUE, Append(t.toks, tok)),
   tmp |-> [t EXCEPT !.toks = Append(@, tok)]]

\* A write of json.dump: the next token goes to the temporary file.
WriteTo(f, t, tok) ==
  [file |-> f, tmp |-> [t EXCEPT !.toks = Append(@, tok)]]

\* line 103: NamedTemporaryFile(..., delete=False, dir=directory) creates an
\* empty file under a fresh name.
SaveOpen ==
  /\ pc = "sv_open"
  /\ tmp' = [exists |-> TRUE, toks |-> <<>>]
  /\ pc' = "sv_dump"
  /\ UNCHANGED <<tasks, file, stray, sv, call, stored, loaded, out, hist, heap>>

\* line 103 raising OSError: no temporary file was created.
SaveOpenFail ==
  /\ pc = "sv_open"
  /\ sv' = [sv EXCEPT !.exc = TRUE]
  /\ pc' = "sv_except"
  /\ UNCHANGED <<tasks, file, tmp, stray, call, stored, loaded, out, hist, heap>>

\* line 104: json.dump writes the serialization piece by piece.
SaveDump ==
  /\ pc = "sv_dump"
  /\ Len(tmp.toks) < Len(Dump(sv.list))
  /\ LET w == WriteTo(file, tmp, Dump(sv.list)[Len(tmp.toks) + 1]) IN
       /\ file' = w.file
       /\ tmp' = w.tmp
  /\ UNCHANGED <<pc, tasks, stray, sv, call, stored, loaded, out, hist, heap>>

\* line 104 raising OSError in the middle (disk full, I/O error): control
\* leaves the with block, which closes the file, before line 105 has run.
SaveDumpFail ==
  /\ pc = "sv_dump"
  /\ Len(tmp.toks) < Len(Dump(sv.list))
  /\ sv' = [sv EXCEPT !.exc = TRUE]
  /\ pc' = "sv_except"
  /\ UNCHANGED <<tasks, file, tmp, stray, call, stored, loaded, out, hist, heap>>

\* line 105: tmp_path = tmp.name, once json.dump has returned.
SaveName ==
  /\ pc = "sv_dump"
  /\ Len(tmp.toks) = Len(Dump(sv.list))
  /\ sv' = [sv EXCEPT !.tmp_path = TRUE]
  /\ pc' = "sv_close"
  /\ UNCHANGED <<tasks, file, tmp, stray, call, stored, loaded, out, hist, heap>>

\* the end of the with block: the file is flushed and closed, or that fails
\* with OSError.
SaveClose ==
  /\ pc = "sv_close"
  /\ \/ pc' = "sv_replace" /\ sv' = sv
     \/ pc' = "sv_except" /\ sv' = [sv EXCEPT !.exc = TRUE]
  /\ UNCHANGED <<tasks, file, tmp, stray, call, stored, loaded, out, hist, heap>>

\* A replace that leaves the file at file_path as it was.
ReplaceNothing(f, t) == f

\* os.replace(tmp_path, file_path): the file at file_path is now the
\* temporary file, whatever was there.
ReplaceFile(f, t) == File(TRUE, TRUE, t.toks)

\* lines 107-108: os.replace(tmp_path, file_path) succeeds and save_tasks
\* returns.
SaveReplace ==
  /\ pc = "sv_replace"
  /\ file' = ReplaceFile(file, tmp)
  /\ tmp' = NoTmp
  /\ Returned(FALSE)
  /\ UNCHANGED <<tasks, stray, call, stored, loaded, heap>>

\* line 107 raising OSError: nothing was renamed.
SaveReplaceFail ==
  /\ pc = "sv_replace"
  /\ sv' = [sv EXCEPT !.exc = TRUE]
  /\ pc' = "sv_except"
  /\ UNCHANGED <<tasks, file, tmp, stray, call, stored, loaded, out, hist, heap>>

\* lines 109-117: the handler removes the temporary file when tmp_path is
\* bound and the file exists, then raises IOError to the caller.  A
\* temporary file it does not remove stays in the directory.
SaveExcept ==
  /\ pc = "sv_except"
  /\ tmp' = NoTmp
  /\ stray' = (stray \/ (tmp.exists /\ ~sv.tmp_path))
  /\ Returned(TRUE)
  /\ UNCHANGED <<tasks, file, call, stored, loaded, heap>>

SaveStep ==
  \/ SaveOpen \/ SaveOpenFail \/ SaveDump \/ SaveDumpFail \/ SaveName
  \/ SaveClose \/ SaveReplace \/ SaveReplaceFail \/ SaveExcept

\* The process is killed (or the machine stops) in the middle of a save;
\* the files stay as they are.
Crash ==
  /\ pc \in SavePcs
  /\ pc' = "crashed"
  /\ hist' = [hist EXCEPT !.crashAt = pc]
  /\ UNCHANGED <<tasks, file, tmp, stray, sv, call, stored, loaded, out, heap>>

\* --------------------------------------------- direct calls of the store
\* A caller that saves a list of its own to a path with some earlier
\* content and loads it back.
SavedTitles == {<<>>, <<"a", " ">>, <<"SOH">>, <<"QUOTE", "a">>}
SavedTasks == {Task(t, d) : t \in SavedTitles, d \in BOOLEAN}

PriorFiles ==
  { NoFile,
    File(TRUE, TRUE, Dump(<<Task(<<"a">>, TRUE)>>)),
    File(TRUE, TRUE, <<Punct("["), Punct("{")>>) }

InitStore ==
  /\ pc = "store"
  /\ tasks \in SeqsUpTo(SavedTasks, MaxSaved)
  /\ file \in PriorFiles
  /\ stored = JNull
  /\ InitRest

\* What a caller may hand to save_tasks as its first argument: its list, or
\* a value that is not a list.
ListArg(list) == [is_list |-> TRUE, list |-> list]
NonListArg == [is_list |-> FALSE, list |-> <<>>]

\* A save_tasks without the check of lines 98-99.
AnyArgPasses(arg) == TRUE

\* isinstance(tasks, list), line 98
IsListArg(arg) == arg.is_list

\* save_tasks(arg, file_path): TypeError for an argument that is not a
\* list (lines 98-99), else on to the temporary file.
StoreSave ==
  /\ pc = "store"
  /\ \E arg \in {ListArg(tasks), NonListArg} :
       IF IsListArg(arg)
       THEN /\ sv' = [EnterSave("store") EXCEPT !.is_list = arg.is_list, !.list = arg.list]
            /\ pc' = "sv_open"
            /\ hist' = hist
       ELSE /\ sv' = [EnterSave("store") EXCEPT !.is_list = arg.is_list, !.list = arg.list,
                                                !.exc = TRUE, !.err = "TypeError"]
            /\ pc' = "returned"
            /\ hist' = [hist EXCEPT !.lastSave = "failed"]
  /\ UNCHANGED <<tasks, file, tmp, stray, call, stored, loaded, out, heap>>

StoreLoad ==
  /\ pc = "returned"
  /\ loaded' = load_tasks(file)
  /\ pc' = "reloaded"
  /\ UNCHANGED <<tasks, file, tmp, stray, sv, call, stored, out, hist, heap>>

NextStore == StoreSave \/ SaveStep \/ Crash \/ StoreLoad

SpecStore == InitStore /\ [][NextStore]_vars

\* ------------------------------------------------ view_tasks and its caller
\* Dicts ever allocated in one run.
MaxDicts == 4

\* A stored list whose dicts are all its own.
HeapOf(ts) ==
  [lists |-> << [i \in 1..Len(ts) |-> i], <<>> >>, dicts |-> ts, view |-> 0]

\* The value of list object l: the dicts it refers to, in order.
Deref(h, l) == [i \in 1..Len(h.lists[l]) |-> h.dicts[h.lists[l][i]]]

\* list(tasks): a new list object that refers to the same dicts.
HeapViewShallow(h) == [h EXCEPT !.lists[2] = h.lists[1], !.view = 2]

\* line 156: a new list of new dicts, one per task, built from the title
\* and the done flag of each.
HeapView(h) ==
  [h EXCEPT !.dicts = h.dicts \o view_tasks(Deref(h, 1)),
            !.lists[2] = [i \in 1..Len(h.lists[1]) |-> Len(h.dicts) + i],
            !.view = 2]

\* l.append(task) with a new dict, l.pop(index), l[index][key] = value and
\* l.clear() on list object l.
HeapAppend(h, l, task) ==
  [h EXCEPT !.dicts = Append(h.dicts, task),
            !.lists[l] = Append(h.lists[l], Len(h.dicts) + 1)]
HeapPop(h, l, index) == [h EXCEPT !.lists[l] = Pop(h.lists[l], index)]
HeapSet(h, l, index, task) == [h EXCEPT !.dicts[h.lists[l][index + 1]] = task]
HeapClear(h, l) == [h EXCEPT !.lists[l] = <<>>]

\* The lists the program holds when view_tasks is first called.
ViewedLists ==
  {<<>>, <<Task(<<"a">>, FALSE)>>, <<Task(<<"a">>, TRUE)>>,
   <<Task(<<"a">>, FALSE), Task(<<"a">>, TRUE)>>}

\* The title the holder of a view writes into it.
HolderTitle == <<"a", "a">>

InitView ==
  /\ pc = "view"
  /\ tasks \in ViewedLists
  /\ file = NoFile
  /\ stored = JNull
  /\ tmp = NoTmp /\ stray = FALSE /\ sv = NoSave /\ call = NoCall
  /\ loaded = NoLoad /\ out = "none" /\ hist = NoHist
  /\ heap = HeapOf(tasks)

\* view_tasks(tasks): the caller now holds what it returned.
ViewCall ==
  /\ pc = "view"
  /\ Len(heap.dicts) + Len(heap.lists[1]) <= MaxDicts
  /\ heap' = HeapView(heap)
  /\ hist' = [hist EXCEPT !.stale = FALSE, !.touched = FALSE]
  /\ UNCHANGED <<pc, tasks, file, tmp, stray, sv, call, stored, loaded, out>>

\* The holder of the returned list changes it or one of its dicts.
Held(h) ==
  /\ pc = "view"
  /\ heap.view # 0
  /\ heap' = h
  /\ hist' = [hist EXCEPT !.touched = TRUE]
  /\ UNCHANGED <<pc, tasks, file, tmp, stray, sv, call, stored, loaded, out>>

HolderAppend ==
  /\ Len(heap.dicts) < MaxDicts
  /\ Held(HeapAppend(heap, heap.view, Task(HolderTitle, FALSE)))

HolderPop ==
  /\ heap.view # 0
  /\ \E i \in 0..(Len(heap.lists[heap.view]) - 1) : Held(HeapPop(heap, heap.view, i))

HolderSetTitle ==
  /\ heap.view # 0
  /\ \E i \in 0..(Len(heap.lists[heap.view]) - 1) :
       Held(HeapSet(heap, heap.view, i, Task(HolderTitle, Deref(heap, heap.view)[i + 1].done)))

HolderSetDone ==
  /\ heap.view # 0
  /\ \E i \in 0..(Len(heap.lists[heap.view]) - 1) :
       Held(HeapSet(heap, heap.view, i,
                    Task(Deref(heap, heap.view)[i + 1].title,
                         ~Deref(heap, heap.view)[i + 1].done)))

\* A core operation on the stored list returned normally: r is what it
\* made of the list, h what it did to the objects.
StoredChanged(r, h) ==
  /\ pc = "view"
  /\ r.err = ""
  /\ tasks' = r.tasks
  /\ heap' = h
  /\ hist' = [hist EXCEPT !.stale = (heap.view # 0)]
  /\ UNCHANGED <<pc, file, tmp, stray, sv, call, stored, loaded, out>>

\* add_task, lines 138-139: tasks.append(task)
StoredAdd ==
  /\ Len(heap.dicts) < MaxDicts
  /\ StoredChanged(add_task(tasks, JStr(<<"a">>)), HeapAppend(heap, 1, Task(<<"a">>, FALSE)))

\* remove_task, line 177: tasks.pop(index)
StoredRemove ==
  \E i \in 0..(Len(tasks) - 1) :
     StoredChanged(remove_task(tasks, IntArg(i)), HeapPop(heap, 1, i))

\* mark_task, line 199: tasks[index]['done'] = True
StoredMark ==
  \E i \in 0..(Len(tasks) - 1) :
     StoredChanged(mark_task(tasks, IntArg(i)),
                   HeapSet(heap, 1, i, Task(Deref(heap, 1)[i + 1].title, TRUE)))

\* clear_tasks, line 216: tasks.clear()
StoredClear == StoredChanged(clear_tasks(tasks), HeapClear(heap, 1))

NextView ==
  \/ ViewCall
  \/ HolderAppend \/ HolderPop \/ HolderSetTitle \/ HolderSetDone
  \/ StoredAdd \/ StoredRemove \/ StoredMark \/ StoredClear

SpecView == InitView /\ [][NextView]_vars

\* ---------------------------------------------------------- main: session
\* What the user types at the title prompt and at the index prompt.
SessionTitles == {<<>>, <<" ">>, <<"a">>, <<" ", "a">>}

Digits == <<"0", "1", "2", "3", "4", "5", "6", "7", "8", "9">>
IsDigit(c) == \E i \in 1..10 : Digits[i] = c
DigitVal(c) == (CHOOSE i \in 1..10 : Digits[i] = c) - 1

RECURSIVE DigitsVal(_)
DigitsVal(s) ==
  IF s = <<>> THEN 0 ELSE 10 * DigitsVal(SubSeq(s, 1, Len(s) - 1)) + DigitVal(s[Len(s)])

\* int(raw) of a stripped text: an optional sign and decimal digits, else
\* ValueError.
IntOk(s) ==
  LET d == IF s # <<>> /\ Head(s) \in {"-", "+"} THEN Tail(s) ELSE s
  IN d # <<>> /\ \A i \in 1..Len(d) : IsDigit(d[i])

IntOf(s) ==
  IF Head(s) = "-" THEN 0 - DigitsVal(Tail(s))
  ELSE IF Head(s) = "+" THEN DigitsVal(Tail(s)) ELSE DigitsVal(s)

IndexInputs ==
  {<<>>, <<" ">>, <<"x">>, <<"-", "1">>, <<" ", "2">>, <<"0", "1">>}
  \cup {<<Digits[k + 1]>> : k \in 0..(MaxHeld + 1)}

\* A _prompt_index that returns the number as entered.
PromptIndexNoShift(typed, num_tasks) ==
  LET raw == Strip(typed) IN
  IF raw = <<>> \/ ~IntOk(raw) THEN [err |-> "ValueError", idx |-> 0]
  ELSE IF IntOf(raw) < 1 \/ IntOf(raw) > num_tasks THEN [err |-> "ValueError", idx |-> 0]
  ELSE [err |-> "", idx |-> IntOf(raw)]

\* _prompt_index(num_tasks) for what the user typed: the zero-based index,
\* or ValueError.
PromptIndex(typed, num_tasks) ==
  LET raw == Strip(typed) IN
  IF raw = <<>> THEN [err |-> "ValueError", idx |-> 0]
  ELSE IF ~IntOk(raw) THEN [err |-> "ValueError", idx |-> 0]
  ELSE IF IntOf(raw) < 1 \/ IntOf(raw) > num_tasks THEN [err |-> "ValueError", idx |-> 0]
  ELSE [err |-> "", idx |-> IntOf(raw) - 1]

\* The files the session can find at tasks.json when it starts.
SessionFiles ==
  { NoFile,
    File(TRUE, TRUE, Dump(<<Task(<<"a">>, TRUE)>>)),
    File(TRUE, TRUE, <<Punct("["), Punct("{")>>),
    File(TRUE, FALSE, Dump(<<Task(<<"a">>, FALSE)>>)),
    File(TRUE, TRUE, Render(JList(<<JDict(<<Member(TitleKey, JStr(<<"a">>))>>), JNum(<<"1">>)>>))) }

\* main(), lines 279-284: tasks = load_tasks(file_path), [] on an exception.
MainLoad ==
  /\ pc = "start"
  /\ tasks' = IF load_tasks(file).raised THEN <<>> ELSE load_tasks(file).tasks
  /\ pc' = "menu"
  /\ UNCHANGED <<file, tmp, stray, sv, call, stored, loaded, out, hist, heap>>

Init ==
  /\ pc = "start"
  /\ tasks = <<>>
  /\ file \in SessionFiles
  /\ stored = JNull
  /\ InitRest

\* A branch of the menu that forgets to save after mark_task.
AfterMutationNoSaveOnMark(op) == IF op = "mark" THEN "menu" ELSE "mutated"

\* Where main goes after a mutating call has returned normally: on to the
\* save_tasks call of the same branch.
AfterMutation(op) == "mutated"

\* What main passed on from the prompt of a menu branch: the text typed,
\* the index handed to the core, the error raised, and the list and the
\* file as the branch found them.
Asked(op, typed, index, err) ==
  [NoCall EXCEPT !.op = op, !.typed = typed, !.index = index, !.err = err,
                 !.before = tasks, !.file = file]

\* The mutating call of a menu branch returned normally.
MutatedCall(op, r, c) ==
  /\ tasks' = r.tasks
  /\ pc' = AfterMutation(op)
  /\ out' = "prompt"
  /\ call' = c
  /\ hist' = [hist EXCEPT !.dirty = TRUE]
  /\ UNCHANGED <<file, tmp, stray, sv, stored, loaded, heap>>

Mutated(op, r) == MutatedCall(op, r, NoCall)

\* A menu branch that ends with a message and goes back to the menu.
SaidCall(msg, c) ==
  /\ out' = msg
  /\ call' = c
  /\ UNCHANGED <<pc, tasks, file, tmp, stray, sv, stored, loaded, hist, heap>>

Said(msg) == SaidCall(msg, NoCall)

\* choice '1', lines 289-297
ChooseView ==
  /\ pc = "menu"
  /\ Said(IF view_tasks(tasks) = <<>> THEN "no_tasks" ELSE "tasks")

\* choice '2', lines 298-304
ChooseAdd ==
  /\ pc = "menu"
  /\ \E typed \in SessionTitles :
       LET r == add_task(tasks, JStr(Strip(typed))) IN
       IF r.err # "" THEN Said("add_error")
       ELSE Len(r.tasks) <= MaxHeld /\ Mutated("add", r)

\* choice '3', lines 309-326
ChooseRemove ==
  /\ pc = "menu"
  /\ IF tasks = <<>> THEN Said("nothing_to_remove")
     ELSE \E typed \in IndexInputs :
       LET p == PromptIndex(typed, Len(tasks))
           r == remove_task(tasks, IntArg(p.idx))
       IN IF p.err # ""
          THEN SaidCall("invalid_selection", Asked("remove", typed, NonIntArg, p.err))
          ELSE IF r.err # ""
          THEN SaidCall("error", Asked("remove", typed, IntArg(p.idx), r.err))
          ELSE MutatedCall("remove", r, Asked("remove", typed, IntArg(p.idx), ""))

\* choice '4', lines 327-344
ChooseMark ==
  /\ pc = "menu"
  /\ IF tasks = <<>> THEN Said("nothing_to_mark")
     ELSE \E typed \in IndexInputs :
       LET p == PromptIndex(typed, Len(tasks))
           r == mark_task(tasks, IntArg(p.idx))
       IN IF p.err # ""
          THEN SaidCall("invalid_selection", Asked("mark", typed, NonIntArg, p.err))
          ELSE IF r.err # ""
          THEN SaidCall("error", Asked("mark", typed, IntArg(p.idx), r.err))
          ELSE MutatedCall("mark", r, Asked("mark", typed, IntArg(p.idx), ""))

\* What the user answers to "Are you sure you want to clear all tasks?".
ClearAnswers ==
  {<<>>, <<"y">>, <<"Y">>, <<" ", "y">>, <<"n">>, <<"N">>, <<"y", "e", "s">>}

\* str.lower() on the letters of an answer
LowerChar(c) == IF c = "Y" THEN "y" ELSE IF c = "N" THEN "n" ELSE c
Lower(s) == [i \in 1..Len(s) |-> LowerChar(s[i])]

\* A front end that clears on every answer.
ConfirmedAlways(answer) == TRUE

\* line 346-347: input(...).strip().lower() == 'y'
Confirmed(answer) == Lower(Strip(answer)) = <<"y">>

\* choice '5', lines 345-355
ChooseClear ==
  /\ pc = "menu"
  /\ \E answer \in ClearAnswers :
       IF Confirmed(answer)
       THEN MutatedCall("clear", clear_tasks(tasks), Asked("clear", answer, NonIntArg, ""))
       ELSE SaidCall("clear_cancelled", Asked("clear", answer, NonIntArg, ""))

\* any other choice, lines 364-365
ChooseOther ==
  /\ pc = "menu"
  /\ Said("invalid_choice")

\* the save_tasks(tasks, file_path) call that ends the branches of choices
\* '2' to '5' (lines 305-306, 319-320, 337-338, 349-350)
MainSave ==
  /\ pc = "mutated"
  /\ sv' = EnterSave("main")
  /\ pc' = "sv_open"
  /\ call' = NoCall
  /\ hist' = [hist EXCEPT !.dirty = FALSE]
  /\ UNCHANGED <<tasks, file, tmp, stray, stored, loaded, out, heap>>

\* choice '6', lines 356-363: a save, then the loop ends.
ChooseExit ==
  /\ pc = "menu"
  /\ sv' = EnterSave("exit")
  /\ pc' = "sv_open"
  /\ out' = "goodbye"
  /\ hist' = [hist EXCEPT !.exitSave = TRUE, !.dirty = FALSE]
  /\ UNCHANGED <<tasks, file, tmp, stray, call, stored, loaded, heap>>

\* KeyboardInterrupt, raised wherever main() happens to be: no handler in
\* main or save_tasks catches it, and a temporary file that is open stays.
Interrupt ==
  /\ pc \in {"start", "menu", "mutated"} \cup SavePcs
  /\ pc' = "interrupted"
  /\ tmp' = NoTmp
  /\ stray' = (stray \/ tmp.exists)
  /\ sv' = NoSave
  /\ UNCHANGED <<tasks, file, call, stored, loaded, out, hist, heap>>

\* lines 371-379: the handler prints, does nothing else, and exits.
InterruptHandler ==
  /\ pc = "interrupted"
  /\ pc' = "exit"
  /\ out' = "interrupt"
  /\ hist' = [hist EXCEPT !.exitCause = "interrupt"]
  /\ UNCHANGED <<tasks, file, tmp, stray, sv, call, stored, loaded, heap>>

Next ==
  \/ MainLoad
  \/ ChooseView \/ ChooseAdd \/ ChooseRemove \/ ChooseMark \/ ChooseClear
  \/ ChooseOther \/ ChooseExit
  \/ MainSave \/ SaveStep
  \/ Interrupt \/ InterruptHandler

Spec == Init /\ [][Next]_vars

\* ================================================================= claims

\* The list `before` without its element at one-based position p.
Without(before, p) ==
  [j \in 1..(Len(before) - 1) |-> IF j < p THEN before[j] ELSE before[j + 1]]

\* C4 as stated: with a one-based index i, remove_task succeeds for i in
\* 1..n, removing the i-th element and keeping the order of the rest, and
\* fails with IndexError, leaving the list unchanged, for i = 0 and i = n+1.
C4_RemoveOneBased ==
  (call.op = "remove" /\ call.index.int) =>
    LET n == Len(call.before)
        i == call.index.n
    IN /\ i \in 1..n => call.err = "" /\ tasks = Without(call.before, i)
       /\ i \in {0, n + 1} => call.err = "IndexError" /\ tasks = call.before

\* C4 amended: the index of remove_task is zero-based.  For a list of
\* length n, remove_task succeeds for i in 0..n-1, removes exactly the
\* element at position i (the (i+1)-th) and leaves a list of length n-1 with
\* the rest in their original order; for i = -1 and i = n it raises
\* IndexError and the list is unchanged.
C4_RemoveZeroBased ==
  (call.op = "remove" /\ call.index.int) =>
    LET n == Len(call.before)
        i == call.index.n
    IN /\ i \in 0..(n - 1) =>
            /\ call.err = ""
            /\ Len(tasks) = n - 1
            /\ tasks = Without(call.before, i + 1)
       /\ i \in {-1, n} => call.err = "IndexError" /\ tasks = call.before

\* A removal from the middle of a list of three different tasks.
C4_Witness ==
  /\ call.op = "remove" /\ call.err = ""
  /\ Len(call.before) = 3 /\ call.index = IntArg(1)
  /\ call.before[1] # call.before[2] /\ call.before[2] # call.before[3]
  /\ call.before[1] # call.before[3]

\* The Task validity predicate of the data model.
ValidTask(t) ==
  /\ Strip(t.title) # <<>>
  /\ \A i \in 1..Len(t.title) : IsPrintable(t.title[i])
  /\ Len(t.title) <= 200
  /\ t.done \in BOOLEAN

\* C5: every element of the task list is a valid task: a title that is
\* non-empty after trimming, printable and at most 200 long, and a boolean
\* done flag.
C5_AllTasksValid == \A i \in 1..Len(tasks) : ValidTask(tasks[i])

\* Sanitization as the spec defines it: trim, drop the non-printable
\* characters, truncate to 200.
RECURSIVE OnlyPrintable(_)
OnlyPrintable(s) ==
  IF s = <<>> THEN <<>>
  ELSE (IF IsPrintable(Head(s)) THEN <<Head(s)>> ELSE <<>>) \o OnlyPrintable(Tail(s))

Truncated(s) == IF Len(s) > 200 THEN SubSeq(s, 1, 200) ELSE s
Sanitized(s) == Truncated(OnlyPrintable(Strip(s)))

\* C6: for a raw title that is non-empty after trimming and sanitizing,
\* add_task then view_tasks gives the previous list with one task appended,
\* {title: sanitized(raw), done: false}.
C6_AddAppendsSanitized ==
  (call.op = "add" /\ call.title.k = "str" /\ Sanitized(call.title.s) # <<>>) =>
    /\ call.err = ""
    /\ call.view = Append(call.before, Task(Sanitized(call.title.s), FALSE))

\* What load_tasks is to keep: a record whose title field is a string.
IsKept(v) ==
  /\ v.k = "dict"
  /\ \E i \in 1..Len(v.f) : v.f[i].key = TitleKey /\ v.f[i].v.k = "str"

Field(v, key) == v.f[CHOOSE i \in 1..Len(v.f) : v.f[i].key = key].v
HasField(v, key) == \E i \in 1..Len(v.f) : v.f[i].key = key

\* The boolean a stored done value stands for.
Coerced(v) ==
  \/ v.k = "true"
  \/ v.k = "num" /\ v.s # <<"0">>
  \/ v.k = "str" /\ Len(v.s) > 0
  \/ v.k \in {"list", "dict"} /\ Len(v.items) + Len(v.f) > 0

FileHolds(doc) == file.exists /\ file.readable /\ file.toks = Render(doc)

\* C3: from a stored top-level sequence load_tasks returns exactly the
\* records with a string title, in their order, each as {title, done} with
\* done coerced to a boolean and false when missing; other elements are
\* skipped and extra fields are ignored.
C3_LoadKeepsValidInOrder ==
  (pc = "loaded" /\ FileHolds(stored) /\ stored.k = "list") =>
    LET kept == SelectSeq(stored.items, IsKept) IN
    /\ ~loaded.raised
    /\ Len(tasks) = Len(kept)
    /\ \A i \in 1..Len(kept) :
         /\ tasks[i].title = Field(kept[i], TitleKey).s
         /\ tasks[i].done = (HasField(kept[i], DoneKey) /\ Coerced(Field(kept[i], DoneKey)))
         /\ DOMAIN tasks[i] = {"title", "done"}

\* A load that skipped a malformed element between two kept ones, the
\* second with a truthy non-boolean done and an extra field.
C3_Witness ==
  /\ pc = "loaded" /\ FileHolds(stored) /\ stored.k = "list"
  /\ Len(stored.items) = 3 /\ Len(tasks) = 2
  /\ IsKept(stored.items[1]) /\ ~IsKept(stored.items[2]) /\ IsKept(stored.items[3])
  /\ HasField(stored.items[3], ExtraKey) /\ HasField(stored.items[3], DoneKey)
  /\ Field(stored.items[3], DoneKey) = JStr(<<"a">>)
  /\ tasks[2].done /\ ~tasks[1].done

\* C8: when the file exists and cannot be read, load_tasks signals an
\* error to its caller.
C8_UnreadableFileRaises ==
  (pc = "loaded" /\ file.exists /\ ~file.readable) => loaded.raised

\* C1: while save_tasks runs and after it was interrupted, the file at path
\* holds its complete pre-save content or the complete serialization of
\* the saved list; up to the replace, also when the process dies after the
\* temporary file was written, it is identical to the pre-save content.
C1_CrashAtomic ==
  /\ (pc \in SavePcs \cup {"crashed"}) =>
        \/ file = sv.pre
        \/ file.exists /\ file.toks = Dump(sv.list)
  /\ (pc \in SavePcs) => file = sv.pre
  /\ (pc = "crashed" /\ hist.crashAt \in SavePcs) => file = sv.pre

\* The process died between the full write of the temporary file and the
\* replace, and the old, different content is still at path.
C1_Witness ==
  /\ pc = "crashed" /\ hist.crashAt = "sv_replace"
  /\ tmp.exists /\ tmp.toks = Dump(sv.list)
  /\ file.exists /\ file = sv.pre /\ file.toks # Dump(sv.list)
  /\ Len(sv.list) = 2

\* C2: once save_tasks has failed and returned, no temporary file remains,
\* the failure was raised to the caller and the caller's list is unchanged.
C2_FailureRemovesTemp ==
  (pc = "returned" /\ sv.exc) =>
    /\ ~tmp.exists /\ ~stray
    /\ hist.lastSave = "failed"
    /\ sv.is_list => tasks = sv.list

\* C7: a successful save_tasks(list, p) followed by load_tasks(p) returns a
\* list equal to list, element by element and in order.
C7_RoundTrip ==
  (pc = "reloaded" /\ ~sv.exc) =>
    /\ ~loaded.raised
    /\ Len(loaded.tasks) = Len(sv.list)
    /\ \A i \in 1..Len(sv.list) : loaded.tasks[i] = sv.list[i]

\* A list of two tasks, one with a control character as title and done,
\* saved over an earlier file and loaded back.
C7_Witness ==
  /\ pc = "reloaded" /\ ~sv.exc /\ sv.pre.exists
  /\ Len(sv.list) = 2
  /\ sv.list[1] = Task(<<"SOH">>, TRUE)
  /\ sv.list[2].title = <<>>
  /\ Len(loaded.tasks) = 2

\* C9: at every menu prompt, no successful mutation is left without a
\* save_tasks call after it; and a save of the session that fails is
\* reported, leaves the in-memory list as the mutation made it, and takes
\* the session to the next prompt.
C9_SaveAfterEveryMutation ==
  /\ [](pc = "menu" => ~hist.dirty)
  /\ [][(pc = "mutated") => (pc' \in {"sv_open", "interrupted"})]_vars
  /\ [][(pc = "sv_except" /\ sv.caller = "main" /\ pc' # "interrupted") =>
          (pc' = "menu" /\ out' = "save_failed" /\ tasks' = tasks /\ tasks' = sv.list)]_vars

\* Back at the menu after the save of a mutation failed: the list holds
\* two tasks, the file does not.
C9_Witness ==
  /\ pc = "menu" /\ out = "save_failed" /\ hist.lastSave = "failed"
  /\ Len(tasks) = 2
  /\ load_tasks(file).tasks # tasks

\* C10: when the session ends by an interrupt, a final save_tasks of the
\* in-memory list was attempted before the exit.
C10_InterruptSaves ==
  (pc = "exit" /\ hist.exitCause = "interrupt") => hist.exitSave

\* C11: add_task with an empty string, a string of white space only, or a
\* value that is not a string raises ValueError (the InvalidInput
\* condition) and leaves the list as it was.
C11_AddRejectsBlank ==
  (call.op = "add"
   /\ (call.title.k # "str" \/ \A i \in 1..Len(call.title.s) : IsSpace(call.title.s[i]))) =>
    /\ call.err = "ValueError"
    /\ Len(tasks) = Len(call.before)
    /\ tasks = call.before

\* A white-space-only title was refused on a list that holds two tasks.
C11_Witness ==
  /\ call.op = "add" /\ call.title = JStr(<<" ", " ">>)
  /\ call.err = "ValueError"
  /\ Len(call.before) = 2 /\ tasks = call.before

\* C12: marking is idempotent: after a successful mark_task, marking the
\* same index again succeeds and leaves the list as the first mark left it;
\* marking a task that was already done succeeds.
C12_MarkIdempotent ==
  (call.op = "mark" /\ call.index.int
   /\ call.index.n \in 0..(Len(call.before) - 1)) =>
    /\ call.err = ""
    /\ tasks[call.index.n + 1].done
    /\ mark_task(tasks, call.index) = OpResult(tasks, "")
    /\ \A j \in 1..Len(tasks) : j # call.index.n + 1 => tasks[j] = call.before[j]

\* A task that was already done was marked again, in a list with a task
\* that is not done.
C12_Witness ==
  /\ call.op = "mark" /\ call.err = "" /\ call.index = IntArg(1)
  /\ Len(call.before) = 2
  /\ call.before[2].done /\ ~call.before[1].done
  /\ tasks = call.before

\* C15: mark_task and remove_task share one index contract: for every list
\* and index argument one fails exactly when the other does, with the same
\* error (TypeError for a non-integer, IndexError for an integer outside
\* the valid range); a negative or too large index is an error, never
\* another position; and after such an error the list is unchanged.
C15_SharedIndexContract ==
  /\ \A index \in IndexArgs :
       LET m == mark_task(tasks, index)
           r == remove_task(tasks, index)
       IN /\ m.err = r.err
          /\ ~index.int => m.err = "TypeError"
          /\ (index.int /\ (index.n < 0 \/ index.n >= Len(tasks))) => m.err = "IndexError"
          /\ m.err # "" => m.tasks = tasks /\ r.tasks = tasks
  /\ (call.op \in {"mark", "remove"} /\ call.err # "") => tasks = call.before

\* mark_task(-1) on a list of two tasks raised IndexError and left the last
\* task not done.
C15_Witness ==
  /\ call.op = "mark" /\ call.index = IntArg(-1) /\ call.err = "IndexError"
  /\ Len(tasks) = 2 /\ ~tasks[2].done /\ tasks = call.before
  /\ remove_task(tasks, IntArg(-1)).err = "IndexError"

C16_NonListRejectedBeforeIO ==
  ~sv.is_list =>
    /\ pc \notin SavePcs \cup {"crashed"}
    /\ sv.exc /\ sv.err = "TypeError"
    /\ ~tmp.exists /\ ~stray
    /\ file = sv.pre

\* save_tasks was called with a non-list on a path that holds an earlier
\* list, and has returned.
C16_Witness ==
  /\ pc = "returned" /\ ~sv.is_list /\ sv.err = "TypeError"
  /\ file.exists /\ file = sv.pre /\ load_tasks(file).tasks # <<>>
  /\ ~tmp.exists

\* C18: save_tasks is all or nothing for the file at path: when it has
\* returned normally the file holds the complete serialization of the
\* list, and when it has raised the file is, in content or absence, what
\* it was before the call.
C18_SaveAllOrNothing ==
  (pc \in {"returned", "reloaded"}) =>
    /\ (~sv.exc /\ sv.is_list) => file.exists /\ file.readable /\ file.toks = Dump(sv.list)
    /\ sv.exc => file = sv.pre
    /\ sv.exc \/ sv.is_list

\* A save of two tasks failed after the temporary file was written in
\* full, and the earlier, different file is still there.
C18_Witness ==
  /\ pc = "returned" /\ sv.exc /\ sv.err = "IOError" /\ sv.tmp_path
  /\ Len(sv.list) = 2
  /\ file.exists /\ file = sv.pre /\ file.toks # Dump(sv.list)

\* C19: at every menu prompt of the session, if a save has been attempted
\* and the most recent one succeeded, loading the file at path gives a
\* list equal to the in-memory list; the two differ at a prompt only after
\* a failed save.
C19_PromptFileMatchesList ==
  (pc = "menu") =>
    /\ hist.lastSave = "ok" =>
         /\ file.exists /\ file.readable
         /\ ~load_tasks(file).raised
         /\ load_tasks(file).tasks = tasks
    /\ load_tasks(file).tasks # tasks => hist.lastSave = "failed"

\* At a prompt after a successful save of two tasks, one of them done.
C19_Witness ==
  /\ pc = "menu" /\ hist.lastSave = "ok"
  /\ Len(tasks) = 2 /\ tasks[1].done /\ ~tasks[2].done
  /\ load_tasks(file).tasks = tasks

\* The number the user entered, when the text typed is one.
EnteredOk(typed) == Strip(typed) # <<>> /\ IntOk(Strip(typed))
Entered(typed) == IntOf(Strip(typed))

\* C20: in the remove and mark branches of the session, for a list of
\* length n >= 1 the text typed is either rejected with ValueError (empty,
\* not a number, or outside 1..n) and the list is unchanged, or it is a
\* number k in 1..n, the core is called with k-1, raises nothing, and acts
\* on exactly the k-th task as displayed; IndexError never happens.
C20_PromptIndexAgreesWithCore ==
  (call.op \in {"remove", "mark"} /\ pc \in {"menu", "mutated"}) =>
    LET n == Len(call.before)
        k == Entered(call.typed)
    IN /\ n >= 1
       /\ call.err \in {"", "ValueError"}
       /\ IF EnteredOk(call.typed) /\ k \in 1..n
          THEN /\ call.err = "" /\ call.index = IntArg(k - 1)
               /\ pc = "mutated"
               /\ call.op = "remove" => tasks = Without(call.before, k)
               /\ call.op = "mark" =>
                    /\ Len(tasks) = n
                    /\ tasks[k] = Task(call.before[k].title, TRUE)
                    /\ \A j \in 1..n : j # k => tasks[j] = call.before[j]
          ELSE /\ call.err = "ValueError" /\ call.index = NonIntArg
               /\ pc = "menu" /\ out = "invalid_selection"
               /\ tasks = call.before

\* The user typed " 2" at the remove prompt of a list of two different
\* tasks and the second one is gone.
C20_Witness ==
  /\ pc = "mutated" /\ call.op = "remove" /\ call.typed = <<" ", "2">>
  /\ Len(call.before) = 2 /\ call.before[1] # call.before[2]
  /\ tasks = <<call.before[1]>>

\* C17 as stated: clear_tasks empties every list and asks nothing itself;
\* in the session the list is cleared and saved only when the answer is
\* 'y', and on any other answer the in-memory list and the file at path
\* are unchanged.
C17_ClearOnlyOnLiteralY ==
  /\ clear_tasks(tasks) = OpResult(<<>>, "")
  /\ (call.op = "clear" /\ pc \in {"menu", "mutated"}) =>
       IF call.typed = <<"y">>
       THEN tasks = <<>> /\ pc = "mutated"
       ELSE tasks = call.before /\ file = call.file /\ pc = "menu"

\* C17 amended: clear_tasks empties every list and asks nothing itself;
\* in the session the list is cleared, and save_tasks is then called with
\* the empty list, exactly when the answer, with surrounding white space
\* removed and in lower case, is 'y' (so 'Y' and ' y' confirm too); on
\* every other answer the in-memory list and the file at path are
\* unchanged and "Clear cancelled." is printed.
C17_ClearOnConfirmedAnswer ==
  /\ [](clear_tasks(tasks) = OpResult(<<>>, ""))
  /\ []((call.op = "clear" /\ pc \in {"menu", "mutated"}) =>
          IF Lower(Strip(call.typed)) = <<"y">>
          THEN tasks = <<>> /\ pc = "mutated"
          ELSE /\ tasks = call.before /\ file = call.file
               /\ pc = "menu" /\ out = "clear_cancelled")
  /\ [][(call.op = "clear" /\ pc = "mutated") =>
          \/ pc' = "interrupted"
          \/ pc' = "sv_open" /\ sv'.list = <<>> /\ sv'.pre = file]_vars

\* The user answered "Y" with two tasks in the list, and the list is empty
\* and about to be saved.
C17_Witness ==
  /\ pc = "mutated" /\ call.op = "clear" /\ call.typed = <<"Y">>
  /\ Len(call.before) = 2 /\ tasks = <<>>
  /\ load_tasks(file).tasks = call.before

\* C13: view_tasks returns an independent copy: whatever the holder of the
\* returned list does to it or to its task records (append, remove, change
\* a title or a done flag), the stored list and its tasks are what the core
\* operations made them, also when the view is held across later mutations
\* of the stored list; and the view is taken as a list of the same titles
\* and done flags.
C13_ViewIndependent ==
  /\ [](pc = "view" => Deref(heap, 1) = tasks)
  /\ [][(pc = "view" /\ tasks' = tasks) => Deref(heap', 1) = Deref(heap, 1)]_vars
  /\ [][(pc = "view" /\ heap'.view # 0 /\ ~hist'.touched /\ ~hist'.stale)
          => Deref(heap', heap'.view) = tasks']_vars

\* A view was taken of a list of two tasks, its holder changed a title in
\* it and dropped an element, the stored list was changed after the view
\* was taken, and the two now differ.
C13_Witness ==
  /\ pc = "view" /\ heap.view = 2 /\ hist.stale /\ hist.touched
  /\ Len(tasks) = 2 /\ tasks[1].title = <<"a">> /\ tasks[1].done
  /\ Len(heap.lists[2]) = 1 /\ Deref(heap, 2)[1].title = HolderTitle

====
